---- MODULE Spec2Model ----
(***************************************************************************)
(* vs-rest-api: the request dispatcher of ApiHost (src/src/host.ts, lines  *)
(* 1-637) and the workspace handler api/workspace (the same file, lines    *)
(* 638-1025).                                                              *)
(*                                                                         *)
(* Strings are sequences of units.  A unit is one character, or one        *)
(* percent escape ("%2E", "%2F") taken as a whole, or a lone "%" that      *)
(* starts no valid escape.  The model follows one request from the         *)
(* listener to the end of its response; a request context and its ApiContext*)
(* are built per request and shared with no other request.                 *)
(***************************************************************************)
EXTENDS Integers, Sequences, FiniteSets, TLC

(***************************************************************************)
(* Bounds                                                                  *)
(***************************************************************************)
\* number of "/"-separated segments a request path adds to its prefix
MaxSegs == 2

(***************************************************************************)
(* Words                                                                   *)
(***************************************************************************)
W_api       == <<"a", "p", "i">>
W_Api       == <<"A", "p", "i">>
W_workspace == <<"w", "o", "r", "k", "s", "p", "a", "c", "e">>
W_mod       == <<"m">>
W_d         == <<"d">>
W_f         == <<"f">>
W_hidden    == <<".", "h">>
W_dotdot    == <<".", ".">>
W_encdotdot == <<"%2E", "%2E">>
W_encslash  == <<".", ".", "%2F", ".", ".">>
W_malformed == <<"%">>
W_other     == <<"x">>
W_upper     == <<"B">>
W_backslash == <<"a", "\\", "b">>
W_percent   == <<"%">>

(***************************************************************************)
(* String helpers                                                          *)
(***************************************************************************)
\* String.prototype.toLowerCase, per unit
LowerUnit(u) ==
    CASE u = "A" -> "a"
      [] u = "B" -> "b"
      [] OTHER   -> u

\* rapi_helpers.normalizeString: the lower-case comparison key of a string
normalizeString(s) == [i \in 1..Len(s) |-> LowerUnit(s[i])]

\* rapi_helpers.isEmptyString
isEmptyString(s) == Len(s) = 0

\* rapi_helpers.replaceAllStrings(s, from, to), for one-unit from and to
replaceAllStrings(s, from, to) == [i \in 1..Len(s) |-> IF s[i] = from THEN to ELSE s[i]]

\* the units rapi_helpers.cleanupString keeps in a module name
IsNameUnit(u) == u \notin {"/", "\\", ".", "%", "%2E", "%2F"}

\* rapi_helpers.cleanupString: the string without the units that may not
\* occur in a module name
cleanupString(s) == SelectSeq(s, IsNameUnit)

\* String.prototype.substr(n): the string from the 0-based index n on
substr(s, n) == SubSeq(s, n + 1, Len(s))

\* String.prototype.split(sep)
split(s, sep) ==
    LET RECURSIVE go(_, _, _)
        go(i, cur, acc) ==
            IF i > Len(s) THEN Append(acc, cur)
            ELSE IF s[i] = sep THEN go(i + 1, <<>>, Append(acc, cur))
            ELSE go(i + 1, Append(cur, s[i]), acc)
    IN  go(1, <<>>, <<>>)

\* Array.prototype.join(sep)
RECURSIVE join(_, _)
join(parts, sep) ==
    IF Len(parts) = 0 THEN <<>>
    ELSE IF Len(parts) = 1 THEN parts[1]
    ELSE parts[1] \o <<sep>> \o join(Tail(parts), sep)

\* REGEX_API = /^(\/)(api)(\/)?/i : a slash, then "api" in any case; the
\* slash that follows is optional
REGEX_API_test(s) ==
    /\ Len(s) >= 4
    /\ s[1] = "/"
    /\ normalizeString(SubSeq(s, 2, 4)) = W_api

(***************************************************************************)
(* Requests                                                                *)
(***************************************************************************)
Slash(w) == <<"/">> \o w

\* how the modelled request paths begin
Prefixes ==
    { Slash(W_api), Slash(W_Api), Slash(W_api \o W_workspace), Slash(W_other),
      Slash(W_api) \o Slash(W_workspace), Slash(W_api) \o <<"/">> \o Slash(W_workspace),
      Slash(W_api) \o Slash(W_mod),
      Slash(W_api) \o Slash(W_workspace) \o Slash(W_malformed),
      Slash(W_api) \o Slash(W_workspace) \o Slash(W_encdotdot),
      Slash(W_api) \o Slash(W_workspace) \o Slash(W_d) \o Slash(W_encslash) }

\* the segments that may follow
Segs == { <<>>, W_d, W_f, W_hidden, W_dotdot }

RECURSIVE Tails(_)
Tails(n) ==
    IF n = 0 THEN { <<>> }
    ELSE Tails(n - 1) \cup { t \o Slash(sg) : t \in Tails(n - 1), sg \in Segs }

\* req.url
Paths == { p \o t : p \in Prefixes, t \in Tails(MaxSegs) }

\* req.method as the client sends it
RawMethods == { "GET", "POST", "PUT" }

\* what rapi_users.getUser(ctx) may return; NoUser stands for no user
NoUser  == [ kind |-> "none",    isGuest |-> FALSE, name |-> <<>> ]
Guest   == [ kind |-> "guest",   isGuest |-> TRUE,  name |-> <<"g">> ]
Account == [ kind |-> "account", isGuest |-> FALSE, name |-> <<"B", "o", "b">> ]
Users   == { NoUser, Guest, Account }

Requests == [ path : Paths, method : RawMethods, user : Users ]

NoRequest == [ path |-> <<>>, method |-> "", user |-> NoUser ]

(***************************************************************************)
(* requestListener: the request context (host.ts 493-513)                  *)
(***************************************************************************)
\* rapi_helpers.normalizeString(req.method)
normalizeMethod(m) ==
    CASE m = "GET"  -> "get"
      [] m = "POST" -> "post"
      [] m = "PUT"  -> "put"
      [] OTHER      -> ""

\* ctx.method
ctxMethod(rq) == IF normalizeMethod(rq.method) = "" THEN "get" ELSE normalizeMethod(rq.method)

\* mutant: the listener never takes the user for missing
UserMissing_Never(user) == FALSE

\* if (!ctx.user): no user was resolved
UserMissing(user) == user.kind = "none"

(***************************************************************************)
(* handleRequest and handleApi: routing (host.ts 230-277, 439-451)         *)
(***************************************************************************)
\* Path.sep of the platform the host runs on
PathSep == "/"

\* handleRequest: is this an API request?
IsApiRequest(pathname) == REGEX_API_test(normalizeString(pathname))

\* handleApi: normalizedPath
ApiNormalizedPath(pathname) ==
    normalizeString(replaceAllStrings(replaceAllStrings(pathname, "\\", "/"), PathSep, "/"))

\* handleApi: parts
ApiParts(pathname) ==
    LET raw == split(substr(ApiNormalizedPath(pathname), 4), "/")
        cleaned == [i \in 1..Len(raw) |-> normalizeString(raw[i])]
    IN  SelectSeq(cleaned, LAMBDA x : ~isEmptyString(x))

\* handleApi: modName, the empty string when there is no first part
ModName(pathname) ==
    LET parts == ApiParts(pathname)
    IN  IF Len(parts) > 0 THEN cleanupString(parts[1]) ELSE <<>>

\* the modules under ./api that require() finds: workspace, and a module
\* "m" standing for any other handler module
Modules == { W_workspace, W_mod }

\* require(`./api/${modName}`) inside try/catch: does mod hold a module?
ModuleLoads(modName) == modName \in Modules

\* typeof mod[p] for the export p of a module: "function", a value of another
\* type ("value"), or no such export ("undefined")
ExportType(modName, p) ==
    CASE modName = W_workspace /\ p \in { "get", "post" } -> "function"
      [] modName = W_mod /\ p = "get"                      -> "function"
      [] modName = W_mod /\ p = "post"                     -> "value"
      [] OTHER                                              -> "undefined"

\* mutant: a module that fails to load gets the 405 responder
ResolveMethod_LoadFailure405(pathname, method) ==
    LET modName == ModName(pathname)
    IN  IF isEmptyString(modName) THEN "root"
        ELSE IF ModuleLoads(modName) /\ ExportType(modName, method) = "function"
             THEN (IF modName = W_workspace THEN "request" ELSE "handler")
        ELSE "notAllowed"

\* handleApi: the method chosen for a request, host.ts 240-293:
\*   "root"       the built-in root method
\*   "request"    api/workspace's request
\*   "handler"    a function exported by another module
\*   "notAllowed" the responder that calls sendMethodNotAllowed
\*   "undefined"  no method
ResolveMethod(pathname, method) ==
    LET modName == ModName(pathname)
    IN  IF isEmptyString(modName) THEN "root"
        ELSE IF ~ModuleLoads(modName) THEN "undefined"
        ELSE IF ExportType(modName, method) = "function"
             THEN (IF modName = W_workspace THEN "request" ELSE "handler")
        ELSE "notAllowed"

(***************************************************************************)
(* ApiResponse, ApiContext (host.ts 296-351, 443-445)                      *)
(***************************************************************************)
NoData ==
    [ kind |-> "undefined", addr |-> "", time |-> "", hasMe |-> FALSE, meName |-> <<>>,
      dirs |-> <<>>, files |-> <<>>, hasParent |-> FALSE, parent |-> <<>> ]

\* handleRequest: apiResponse = { code: 0 }
NewApiResponse == [ code |-> 0, data |-> NoData ]

JSON_MIME == "application/json; charset=utf-8"

\* handleApi: apiCtx as built for the method.  response is the reference to
\* the ApiResponse object (present or deleted), headers the headers object
\* (present or deleted) with the entries the model needs.
NewApiContext ==
    [ statusCode  |-> 200,
      hasResponse |-> TRUE,
      hasHeaders  |-> TRUE,
      contentType |-> JSON_MIME,
      fileType    |-> "",
      contentEncoding |-> "",
      hasContent  |-> FALSE,
      content     |-> <<>> ]

\* mutant: setContent leaves the response object in place
setContent_KeepsResponse(ac, newContent, mime) ==
    [ ac EXCEPT !.hasContent  = TRUE,
                !.content     = newContent,
                !.hasHeaders  = IF mime # "" THEN TRUE ELSE @,
                !.contentType = IF mime # "" THEN mime
                                ELSE @ ]

\* ApiContext.setContent(newContent, mime)
setContent(ac, newContent, mime) ==
    [ ac EXCEPT !.hasResponse = FALSE,
                !.hasContent  = TRUE,
                !.content     = newContent,
                !.hasHeaders  = IF mime # "" THEN TRUE ELSE @,
                !.contentType = IF mime # "" THEN mime
                                ELSE @ ]

\* mutant: sendMethodNotAllowed leaves the response object in place
sendMethodNotAllowed_KeepsResponse(ac) ==
    [ ac EXCEPT !.statusCode = 405, !.hasHeaders = FALSE,
                !.contentType = "", !.fileType = "", !.contentEncoding = "" ]

\* ApiContext.sendMethodNotAllowed()
sendMethodNotAllowed(ac) ==
    [ ac EXCEPT !.statusCode = 405, !.hasResponse = FALSE, !.hasHeaders = FALSE,
                !.contentType = "", !.fileType = "", !.contentEncoding = "" ]

\* ApiContext.sendNotFound()
sendNotFound(ac) ==
    [ ac EXCEPT !.statusCode = 404, !.hasResponse = FALSE, !.hasHeaders = FALSE,
                !.contentType = "", !.fileType = "", !.contentEncoding = "" ]

\* apiCtx.headers[HEADER_FILE_TYPE] = t
setFileType(ac, t) == [ ac EXCEPT !.fileType = t ]

(***************************************************************************)
(* The payload of a response and the HTTP.ServerResponse                   *)
(***************************************************************************)
\* what sendResponse hands to compressForResponse: the JSON text of the
\* ApiResponse, the raw content, or undefined (neither was set)
JsonPayload(envelope) == [ kind |-> "json", gz |-> FALSE, envelope |-> envelope, content |-> <<>> ]
RawPayload(ac) ==
    [ kind |-> IF ac.hasContent THEN "raw" ELSE "undefined", gz |-> FALSE,
      envelope |-> NewApiResponse, content |-> ac.content ]

\* sendResponse: responseData (host.ts 364-370)
ResponseData(ac, envelope) == IF ac.hasResponse THEN JsonPayload(envelope) ELSE RawPayload(ac)

\* the compressed form of a payload
Compressed(payload) == [ payload EXCEPT !.gz = TRUE ]

NoHeaders == [ sent |-> FALSE, contentType |-> "", fileType |-> "", contentEncoding |-> "" ]

\* the headers object handed to writeHead
HeadersOf(ac) ==
    IF ac.hasHeaders
    THEN [ sent |-> TRUE, contentType |-> ac.contentType, fileType |-> ac.fileType,
           contentEncoding |-> ac.contentEncoding ]
    ELSE NoHeaders

\* a fresh HTTP.ServerResponse: heads counts the status lines written, ends
\* the times the stream was ended, status is the status code of the last
\* status line written, body the chunks written
NewServerResponse == [ heads |-> 0, status |-> 0, headers |-> NoHeaders, body |-> <<>>, ends |-> 0 ]

\* rapi_host_helpers.sendUnauthorized / sendNotFound / sendError: the status
\* code is set and the response is ended
SendStatus(r, code) ==
    [ r EXCEPT !.heads = IF @ = 0 THEN 1 ELSE @,
               !.status = IF r.heads = 0 THEN code ELSE @,
               !.ends = @ + 1 ]

(***************************************************************************)
(* api/workspace: the path of the resource (host.ts 935-950)               *)
(***************************************************************************)
\* vscode.workspace.rootPath, as the names from the filesystem root: /r/w
RootPath == << <<"r">>, <<"w">> >>

\* decodeURIComponent throws a URIError on a "%" that starts no escape
DecodeThrows(seg) == \E i \in 1..Len(seg) : seg[i] = "%"

\* decodeURIComponent of a well-formed segment
decodeURIComponent(seg) ==
    [i \in 1..Len(seg) |->
        CASE seg[i] = "%2E" -> "."
          [] seg[i] = "%2F" -> "/"
          [] seg[i] = "%5C" -> "\\"
          [] seg[i] = "%25" -> "%"
          [] OTHER          -> seg[i]]

\* request: the segments after the first three of the split path, still encoded
RawResourceParts(pathname) ==
    LET np == replaceAllStrings(replaceAllStrings(pathname, "\\", "/"), PathSep, "/")
        all == split(np, "/")
    IN  SubSeq(all, 4, Len(all))

\* request: does .map(x => decodeURIComponent(x)) throw?
ResourceDecodeThrows(pathname) ==
    LET raw == RawResourceParts(pathname)
    IN  \E i \in 1..Len(raw) : DecodeThrows(raw[i])

\* request: parts
ResourceParts(pathname) ==
    LET raw == RawResourceParts(pathname)
        dec == [i \in 1..Len(raw) |-> decodeURIComponent(raw[i])]
    IN  SelectSeq(dec, LAMBDA x : Len(x) > 0)

\* Path.normalize of an absolute path given as its names: "" and "." are
\* dropped, ".." removes the name before it (and stays at the filesystem root)
RECURSIVE NormalizeNames(_, _)
NormalizeNames(names, acc) ==
    IF Len(names) = 0 THEN acc
    ELSE LET n == Head(names)
         IN  IF n = <<>> \/ n = <<".">> THEN NormalizeNames(Tail(names), acc)
             ELSE IF n = W_dotdot
                  THEN NormalizeNames(Tail(names),
                                      IF Len(acc) = 0 THEN acc ELSE SubSeq(acc, 1, Len(acc) - 1))
             ELSE NormalizeNames(Tail(names), Append(acc, n))

\* Path.join(dir, rel) for an absolute dir (its names) and a relative string
PathJoin(dir, rel) == NormalizeNames(dir \o split(rel, "/"), <<>>)

\* request: fullPath = Path.join(vscode.workspace.rootPath, parts.join('/'))
FullPath(pathname) == PathJoin(RootPath, join(ResourceParts(pathname), "/"))

\* rapi_helpers.toRelativePath(p) !== false: p is the workspace root or lies
\* below it
InWorkspace(p) == Len(p) >= Len(RootPath) /\ SubSeq(p, 1, Len(RootPath)) = RootPath

\* mutant: the check against the workspace root is left out
NotInWorkspace_Unchecked(p) == FALSE

\* request: false === relativePath
NotInWorkspace(p) == ~InWorkspace(p)

\* Path.basename
basename(p) == IF Len(p) = 0 THEN <<>> ELSE p[Len(p)]

\* 0 == normalizeString(name).indexOf('.')
hasLeadingDot(name) == Len(name) > 0 /\ normalizeString(name)[1] = "."

(***************************************************************************)
(* The filesystem the host runs on                                         *)
(***************************************************************************)
\* what lies at an absolute path: "dir", "file", "other" (neither a directory
\* nor a regular file) or "none"
FsKind(p) ==
    CASE p \in { <<>>, << <<"r">> >>, RootPath, RootPath \o <<W_d>>, RootPath \o <<W_hidden>> }
            -> "dir"
      [] p \in { RootPath \o <<W_f>>, RootPath \o <<W_d, W_f>>, RootPath \o <<W_d, W_upper>>,
                 RootPath \o <<W_hidden, W_f>> }
            -> "file"
      [] p = RootPath \o <<W_d, W_d>>
            -> "other"
      [] OTHER -> "none"

\* the names FS.readdir returns for a directory, in the order it returns them
FsChildren(p) ==
    CASE p = RootPath                 -> << W_hidden, W_f, W_d >>
      [] p = RootPath \o <<W_d>>      -> << W_f, W_d, W_upper >>
      [] p = RootPath \o <<W_hidden>> -> << W_f >>
      [] OTHER                        -> << >>

\* cfg.withDot of the configuration snapshot: are dotted directories shown?
WithDotValues == BOOLEAN

(***************************************************************************)
(* State                                                                   *)
(***************************************************************************)
VARIABLES
    pc,            \* where the request stands: the callback it waits for
    req,           \* the request in flight
    config,        \* cfg, the configuration snapshot taken by start()
    apiCtx,        \* the ApiContext of the request
    response,      \* the ApiResponse object of the request
    resp,          \* the HTTP.ServerResponse of the request
    handler,       \* the locals of the running method
    responseData,  \* sendResponse: the payload handed to compressForResponse
    hist,          \* what has happened to the request so far
    host,          \* the ApiHost: _server, the servers it created, its start/stop calls
    nav            \* a client following the links of listings: the answers it got

vars == << pc, req, config, apiCtx, response, resp, handler, responseData, hist, host, nav >>

\* the state of one request
reqVars == << pc, req, config, apiCtx, response, resp, handler, responseData, hist, nav >>

NoPayload == [ kind |-> "undefined", gz |-> FALSE, envelope |-> NewApiResponse, content |-> <<>> ]

\* request / handleDirectory: fullPath, and items, i, dirs, files of the
\* listing; checks are the calls of lstat and isFileVisible for a child whose
\* callback has not run yet, done the children whose processing is over
NoHandler ==
    [ fullPath |-> <<>>, items |-> <<>>, item |-> <<>>, dirs |-> <<>>, files |-> <<>>,
      checks |-> <<>>, done |-> <<>>, effect |-> "", calls |-> <<>> ]

NoHist ==
    [ routed     |-> FALSE,       \* handleRequest matched the path against REGEX_API
      loads      |-> {},          \* the module names handed to require()
      method     |-> "undefined", \* the method handleApi invoked
      failure    |-> "none",      \* how the method failed: "sync", "async"
      serialized |-> 0,           \* times sendResponse built responseData
      compress   |-> "none",      \* compressForResponse: "pending", "gzip", "plain", "rejected"
      retried    |-> FALSE,       \* the catch after compressForResponse ran after a send failure
      fsOps      |-> {},          \* filesystem and editor operations issued, with their path
      visibility |-> {},          \* what isFileVisible resolved with, per child
      lstat      |-> "none",      \* how the lstat of the addressed path ended
      fileVisible |-> "none",     \* what isFileVisible resolved with for the addressed file
      editor     |-> "none" ]     \* the open action: "threw", "openFailed", "showFailed", "shown"

(***************************************************************************)
(* ApiHost: _server and the calls of start and stop (host.ts 461-636)      *)
(***************************************************************************)
\* how many calls of start() and stop() are followed
MaxCalls == 4

DEFAULT_PORT == 1781

\* a port passed to start(port)
CustomPort == 8080

Ports == { DEFAULT_PORT, CustomPort }

\* me._server when no server is recorded
NoServer == 0

\* the host after its constructor
NewApiHost == [ server |-> NoServer, servers |-> <<>>, calls |-> <<>> ]

\* the host once a first start() has resolved true
ListeningApiHost ==
    [ server  |-> 1,
      servers |-> << [ port |-> DEFAULT_PORT, state |-> "listening" ] >>,
      calls   |-> << [ op |-> "start", port |-> DEFAULT_PORT, serverAtCall |-> NoServer,
                       pendingAtCall |-> 0, srv |-> 1, err |-> FALSE,
                       result |-> "true" ] >> ]

RequestInit ==
    /\ pc = "idle"
    /\ req = NoRequest
    /\ config \in [ withDot : WithDotValues ]
    /\ apiCtx = NewApiContext
    /\ response = NewApiResponse
    /\ resp = NewServerResponse
    /\ handler = NoHandler
    /\ responseData = NoPayload
    /\ hist = NoHist
    /\ nav = <<>>

\* requests are served by a host that was started
Init == RequestInit /\ host = ListeningApiHost

(***************************************************************************)
(* The ends of a method call (host.ts 353-428)                             *)
(***************************************************************************)
\* JSON.stringify throws on a value that refers to itself
StringifyThrows(ac, envelope) == ac.hasResponse /\ envelope.data.kind = "circular"

\* rapi_host_helpers.sendError(err, ctx): the request ends with a 500
SendError(ac, envelope, hs) ==
    /\ apiCtx' = ac
    /\ response' = envelope
    /\ resp' = SendStatus(resp, 500)
    /\ responseData' = responseData
    /\ hist' = hs
    /\ pc' = "closed"

\* sendResponse() without an error: responseData is built and handed to
\* compressForResponse; a throw on the way is answered by sendError
SendResponse(ac, envelope, hs) ==
    IF StringifyThrows(ac, envelope)
    THEN SendError(ac, envelope, [hs EXCEPT !.serialized = @ + 1])
    ELSE /\ apiCtx' = ac
         /\ response' = envelope
         /\ resp' = resp
         /\ responseData' = ResponseData(ac, envelope)
         /\ hist' = [hs EXCEPT !.serialized = @ + 1, !.compress = "pending"]
         /\ pc' = "compress"

\* mutant: the failure of a method is swallowed and the response is sent
MethodFailed_Swallowed(ac, envelope, hs, how) ==
    SendResponse(ac, envelope, [hs EXCEPT !.failure = how])

\* the method threw, or the promise it returned was rejected: both catch
\* clauses call sendError
MethodFailed(ac, envelope, hs, how) ==
    SendError(ac, envelope, [hs EXCEPT !.failure = how])

\* rapi_host_helpers.sendUnauthorized(ctx) / sendNotFound(ctx): the request
\* ends with the status code, no ApiContext is involved
SendStatusAndClose(code, hs) ==
    /\ apiCtx' = apiCtx
    /\ response' = response
    /\ resp' = SendStatus(resp, code)
    /\ responseData' = responseData
    /\ hist' = hs
    /\ pc' = "closed"

(***************************************************************************)
(* The methods handleApi may invoke                                        *)
(***************************************************************************)
\* mutant: the root method adds me for a guest as well
RootData_MeForGuest(user) ==
    [ NoData EXCEPT !.kind = "root",
                    !.addr = "remoteAddress",
                    !.time = "YYYY-MM-DD HH:mm:ss",
                    !.hasMe = TRUE,
                    !.meName = normalizeString(user.name) ]

\* the root method (host.ts 281-292): ac.response.data
RootData(user) ==
    [ NoData EXCEPT !.kind = "root",
                    !.addr = "remoteAddress",
                    !.time = "YYYY-MM-DD HH:mm:ss",
                    !.hasMe = ~user.isGuest,
                    !.meName = IF ~user.isGuest THEN normalizeString(user.name) ELSE <<>> ]

\* a function exported by a module other than workspace: it returns nothing,
\* throws, or returns a promise
HandlerResults == { "void", "throw", "promise" }

\* what such a function does to its ApiContext before it is done: nothing,
\* setContent, or response data that JSON.stringify cannot serialize
HandlerEffects == { "none", "content", "circular" }

CustomContent == << <<"c">> >>

EffectOnContext(ac, effect) ==
    IF effect = "content" THEN setContent(ac, CustomContent, "text/plain") ELSE ac

EffectOnResponse(envelope, effect) ==
    IF effect = "circular" THEN [envelope EXCEPT !.data = [NoData EXCEPT !.kind = "circular"]]
    ELSE envelope

\* api/workspace request, up to its first callback (host.ts 934-952)
WorkspaceRequest(rq, hs) ==
    IF ResourceDecodeThrows(rq.path)
    THEN \* catch (e) { completed(e) }: the promise is rejected
         /\ handler' = NoHandler
         /\ MethodFailed(NewApiContext, NewApiResponse, hs, "async")
    ELSE LET fullPath == FullPath(rq.path)
         IN  IF NotInWorkspace(fullPath)
             THEN \* notFound()
                  /\ handler' = [NoHandler EXCEPT !.fullPath = fullPath]
                  /\ SendResponse(sendNotFound(NewApiContext), NewApiResponse, hs)
             ELSE \* FS.exists(fullPath, ...)
                  /\ handler' = [NoHandler EXCEPT !.fullPath = fullPath]
                  /\ apiCtx' = NewApiContext
                  /\ response' = NewApiResponse
                  /\ resp' = resp
                  /\ responseData' = responseData
                  /\ hist' = [hs EXCEPT !.fsOps = @ \cup { <<"exists", fullPath>> }]
                  /\ pc' = "exists"

\* a function of another module is called (host.ts 408-420)
OtherHandler(hs) ==
    \E result \in HandlerResults, effect \in HandlerEffects :
        CASE result = "throw" ->
                /\ handler' = NoHandler
                /\ MethodFailed(NewApiContext, NewApiResponse, hs, "sync")
          [] result = "void" ->
                /\ handler' = NoHandler
                /\ SendResponse(EffectOnContext(NewApiContext, effect),
                                EffectOnResponse(NewApiResponse, effect), hs)
          [] result = "promise" ->
                /\ handler' = [NoHandler EXCEPT !.effect = effect]
                /\ apiCtx' = NewApiContext
                /\ response' = NewApiResponse
                /\ resp' = resp
                /\ responseData' = responseData
                /\ hist' = hs
                /\ pc' = "methodResult"

\* handleApi (host.ts 226-429)
HandleApi(rq, hs) ==
    LET m   == ResolveMethod(rq.path, ctxMethod(rq))
        hs1 == [hs EXCEPT !.loads = IF m = "root" THEN {} ELSE { ModName(rq.path) },
                          !.method = m]
    IN  CASE m = "undefined" ->
                /\ handler' = NoHandler
                /\ SendStatusAndClose(404, hs1)
          [] m = "root" ->
                /\ handler' = NoHandler
                /\ SendResponse(NewApiContext,
                                [NewApiResponse EXCEPT !.data = RootData(rq.user)], hs1)
          [] m = "notAllowed" ->
                /\ handler' = NoHandler
                /\ SendResponse(sendMethodNotAllowed(NewApiContext), NewApiResponse, hs1)
          [] m = "handler" -> OtherHandler(hs1)
          [] m = "request" -> WorkspaceRequest(rq, hs1)

\* handleRequest (host.ts 436-452)
HandleRequest(rq, hs) ==
    IF IsApiRequest(rq.path)
    THEN HandleApi(rq, [hs EXCEPT !.routed = TRUE])
    ELSE /\ handler' = NoHandler
         /\ SendStatusAndClose(404, [hs EXCEPT !.routed = TRUE])

\* requestListener (host.ts 491-531): a request arrives
RequestListener ==
    /\ pc = "idle"
    /\ \E rq \in Requests :
        /\ req' = rq
        /\ config' = config
        /\ host' = host
        /\ nav' = nav
        /\ IF UserMissing(rq.user)
           THEN /\ handler' = NoHandler
                /\ SendStatusAndClose(401, hist)
           ELSE HandleRequest(rq, hist)

(***************************************************************************)
(* api/workspace: the callbacks of request (host.ts 952-1016)              *)
(***************************************************************************)
Keep == /\ req' = req
        /\ config' = config
        /\ host' = host
        /\ nav' = nav

IssueOp(hs, op, path) == [hs EXCEPT !.fsOps = @ \cup { <<op, path>> }]

\* the method waits for the callback named by pc2; nothing is sent yet
Await(pc2, ac, envelope, hs) ==
    /\ apiCtx' = ac
    /\ response' = envelope
    /\ resp' = resp
    /\ responseData' = responseData
    /\ hist' = hs
    /\ pc' = pc2

\* mutant: a dotted directory is hidden whatever withDot says
DirectoryHidden_IgnoresWithDot(name) == hasLeadingDot(name)

\* is a directory with this base name hidden? (host.ts 968-971, 820-825)
DirectoryHidden(name) == hasLeadingDot(name) /\ ~config.withDot

\* FS.exists(fullPath, (exists) => ...)
ExistsCallback ==
    /\ pc = "exists"
    /\ Keep
    /\ handler' = handler
    /\ IF FsKind(handler.fullPath) # "none"
       THEN Await("lstat", apiCtx, response, IssueOp(hist, "lstat", handler.fullPath))
       ELSE SendResponse(sendNotFound(apiCtx), response, hist)

\* how FS.lstat may end: with the stats, with ENOENT (the path was removed
\* after FS.exists saw it) or with another error
LstatOutcomes == { "ok", "ENOENT", "EIO" }

\* FS.lstat(fullPath, (err, stats) => ...)
LstatCallback ==
    /\ pc = "lstat"
    /\ Keep
    /\ handler' = handler
    /\ \E err \in LstatOutcomes :
        LET hs == [hist EXCEPT !.lstat = err]
        IN  IF err # "ok" THEN MethodFailed(apiCtx, response, hs, "async")
            ELSE CASE FsKind(handler.fullPath) = "dir" ->
                        IF ctxMethod(req) = "get"
                        THEN IF DirectoryHidden(basename(handler.fullPath))
                             THEN SendResponse(sendNotFound(apiCtx), response, hs)
                             ELSE \* handleDirectory: the type header, then FS.readdir
                                  Await("readdir", setFileType(apiCtx, "directory"), response,
                                        IssueOp(hs, "readdir", handler.fullPath))
                        ELSE SendResponse(sendMethodNotAllowed(apiCtx), response, hs)
                   [] FsKind(handler.fullPath) = "file" ->
                        Await("isFileVisible", apiCtx, response, hs)
                   [] OTHER ->
                        SendResponse(sendNotFound(apiCtx), response, hs)

\* MIME type of a file, rapi_helpers.detectMimeByFilename
FILE_MIME == "application/octet-stream"

\* handleFile (host.ts 870-914) up to its first callback: the context it
\* leaves, the operation it issues and the callback it waits for ("failed":
\* completed(e) after a throw, "send": completed() at once)
\*   thrown  openTextDocument throws instead of returning a promise
handleFile(ac, method, thrown) ==
    LET typed == setFileType(ac, "file")
    IN  CASE method = "get"  -> [ next |-> "readFile", ac |-> typed, op |-> "readFile" ]
          [] method = "post" ->
                IF thrown THEN [ next |-> "failed", ac |-> typed, op |-> "" ]
                ELSE [ next |-> "openTextDocument", ac |-> typed, op |-> "openTextDocument" ]
          [] OTHER -> [ next |-> "send", ac |-> sendMethodNotAllowed(typed), op |-> "" ]

\* mutant: a file the user may not see is answered like a missing one
FileVisibleThen_Gated(isVisible, ac, method, thrown) ==
    IF isVisible THEN handleFile(ac, method, thrown)
    ELSE [ next |-> "send", ac |-> sendNotFound(ac), op |-> "" ]

\* isFileVisible(fullPath).then(() => { handleFile(apiCtx, fullPath)... }):
\* the value the promise resolved with is not looked at (host.ts 991-996)
FileVisibleThen(isVisible, ac, method, thrown) == handleFile(ac, method, thrown)

\* apiCtx.request.user.isFileVisible(fullPath) settles; then handleFile
IsFileVisibleCallback ==
    /\ pc = "isFileVisible"
    /\ Keep
    /\ handler' = handler
    /\ \E outcome \in { "true", "false", "reject" }, thrown \in BOOLEAN :
        IF outcome = "reject" THEN MethodFailed(apiCtx, response, hist, "async")
        ELSE LET st == FileVisibleThen(outcome = "true", apiCtx, ctxMethod(req), thrown)
                 hs == [hist EXCEPT !.fileVisible = outcome]
             IN  CASE st.next = "failed" ->
                        MethodFailed(st.ac, response, [hs EXCEPT !.editor = "threw"], "async")
                   [] st.next = "send" ->
                        SendResponse(st.ac, response, hs)
                   [] OTHER ->
                        Await(st.next, st.ac, response, IssueOp(hs, st.op, handler.fullPath))

\* FS.readFile(file, (err, data) => ...)
ReadFileCallback ==
    /\ pc = "readFile"
    /\ Keep
    /\ handler' = handler
    /\ \E err \in BOOLEAN :
        IF err THEN MethodFailed(apiCtx, response, hist, "async")
        ELSE SendResponse(setContent(apiCtx, handler.fullPath, FILE_MIME), response, hist)

\* vscode.workspace.openTextDocument(...).then(...)
OpenTextDocumentCallback ==
    /\ pc = "openTextDocument"
    /\ Keep
    /\ handler' = handler
    /\ \E ok \in BOOLEAN :
        IF ok THEN Await("showTextDocument", apiCtx, response,
                         IssueOp(hist, "showTextDocument", handler.fullPath))
        ELSE MethodFailed(apiCtx, response, [hist EXCEPT !.editor = "openFailed"], "async")

\* vscode.window.showTextDocument(doc).then(...)
ShowTextDocumentCallback ==
    /\ pc = "showTextDocument"
    /\ Keep
    /\ handler' = handler
    /\ \E ok \in BOOLEAN :
        IF ok THEN SendResponse(apiCtx, response, [hist EXCEPT !.editor = "shown"])
        ELSE SendResponse(apiCtx, [response EXCEPT !.code = 1],
                          [hist EXCEPT !.editor = "showFailed"])

(***************************************************************************)
(* handleDirectory (host.ts 693-868)                                       *)
(***************************************************************************)
\* the order of the units, for string comparison
UnitOrder == << "%", "%2E", "%2F", ".", "/", "A", "B", "[object Object]", "\\",
                "a", "b", "c", "d", "e", "f", "g", "h", "i", "k", "m", "o", "p", "r",
                "s", "w", "x" >>

UnitRank(u) == CHOOSE i \in 1..Len(UnitOrder) : UnitOrder[i] = u

\* x < y for strings
RECURSIVE StringLess(_, _)
StringLess(x, y) ==
    IF Len(y) = 0 THEN FALSE
    ELSE IF Len(x) = 0 THEN TRUE
    ELSE IF x[1] = y[1] THEN StringLess(Tail(x), Tail(y))
    ELSE UnitRank(x[1]) < UnitRank(y[1])

\* rapi_helpers.compareValues
compareValues(x, y) == IF StringLess(x, y) THEN -1 ELSE IF StringLess(y, x) THEN 1 ELSE 0

\* the string a DirectoryItem or FileItem object converts to
ObjectString == << "[object Object]" >>

\* the comparator of completed (host.ts 705-713): the items themselves, not
\* their names, are handed to normalizeString
CompareItems(x, y) == compareValues(normalizeString(ObjectString), normalizeString(ObjectString))

\* Array.prototype.sort with that comparator: a stable insertion sort
RECURSIVE InsertItem(_, _)
InsertItem(sorted, x) ==
    IF Len(sorted) = 0 THEN << x >>
    ELSE IF CompareItems(x, sorted[Len(sorted)]) < 0
         THEN Append(InsertItem(SubSeq(sorted, 1, Len(sorted) - 1), x), sorted[Len(sorted)])
    ELSE Append(sorted, x)

RECURSIVE SortItems(_)
SortItems(items) ==
    IF Len(items) = 0 THEN << >>
    ELSE InsertItem(SortItems(SubSeq(items, 1, Len(items) - 1)), items[Len(items)])

\* encodeURIComponent, per unit
EncodeUnit(u) ==
    CASE u = "/"  -> "%2F"
      [] u = "\\" -> "%5C"
      [] u = "%"  -> "%25"
      [] OTHER    -> u

encodeURIComponent(s) == [i \in 1..Len(s) |-> EncodeUnit(s[i])]

\* rapi_helpers.toRelativePath(p) for a path in the workspace: what follows
\* the workspace root, "" for the root itself
toRelativePath(p) ==
    LET rest == SubSeq(p, Len(RootPath) + 1, Len(p))
    IN  IF Len(rest) = 0 THEN <<>> ELSE Slash(join(rest, "/"))

\* completed: normalizePath (host.ts 728-739)
normalizePath(p) ==
    IF Len(p) = 0 THEN p
    ELSE replaceAllStrings(replaceAllStrings(p, "\\", "/"), PathSep, "/")

\* '/api/workspace'
API_WORKSPACE == Slash(W_api) \o Slash(W_workspace)

\* segments.map(x => encodeURIComponent(x)).join('/')
EncodedJoin(segments) ==
    join([i \in 1..Len(segments) |-> encodeURIComponent(segments[i])], "/")

\* completed: the path of the entry name of the directory dir (host.ts 749-752)
ItemPath(dir, name) ==
    API_WORKSPACE \o EncodedJoin(Append(split(normalizePath(toRelativePath(dir)), "/"), name))

\* completed: parentDir = Path.resolve(dir, '..')
ParentDir(dir) == NormalizeNames(Append(dir, W_dotdot), <<>>)

\* completed: is list.parent set? (host.ts 773-775)
HasParentLink(dir) == InWorkspace(ParentDir(dir)) /\ ParentDir(dir) # dir

\* completed: list.parent (host.ts 776-781)
ParentLink(dir) ==
    LET relativeParentDir ==
            replaceAllStrings(replaceAllStrings(toRelativePath(ParentDir(dir)), "\\", "/"),
                              PathSep, "/")
    IN  API_WORKSPACE \o EncodedJoin(split(normalizePath(relativeParentDir), "/"))

\* completed: an entry of list.dirs or list.files
ListEntry(dir, name, type) == [ name |-> name, path |-> ItemPath(dir, name), type |-> type ]

\* completed(): the list assigned to apiCtx.response.data (host.ts 715-785)
ListData(h) ==
    LET dirs  == SortItems(h.dirs)
        files == SortItems(h.files)
    IN  [ NoData EXCEPT
            !.kind  = "list",
            !.dirs  = [i \in 1..Len(dirs) |-> ListEntry(h.fullPath, dirs[i], "dir")],
            !.files = [i \in 1..Len(files) |-> ListEntry(h.fullPath, files[i], "file")],
            !.hasParent = HasParentLink(h.fullPath),
            !.parent = IF HasParentLink(h.fullPath) THEN ParentLink(h.fullPath) ELSE <<>> ]

\* mutant: the child is read but not removed from items
TakeItem_NoShift(h) ==
    [h EXCEPT !.item = Head(h.items),
              !.checks = Append(@, <<"lstat", Head(h.items)>>)]

\* let i = items.shift(); FS.lstat(fullPath, ...) (host.ts 811-814)
TakeItem(h) ==
    [h EXCEPT !.item = Head(h.items), !.items = Tail(h.items),
              !.checks = Append(@, <<"lstat", Head(h.items)>>)]

\* the callback of a check of the child i runs
CheckReturned(h) == [h EXCEPT !.checks = SelectSeq(@, LAMBDA c : c[2] # h.item)]

\* the child i is classified: nextItem() is called for the one after it
ChildDone(h) == [CheckReturned(h) EXCEPT !.done = Append(@, h.item)]

\* apiCtx.request.user.isFileVisible(fullPath) is called in the lstat callback
CheckVisibility(h) == [CheckReturned(h) EXCEPT !.checks = Append(@, <<"isFileVisible", h.item>>)]

\* mutant: the listing is published while a child is left
NextItem_PublishesEarly(h, hs) ==
    IF Len(h.items) < 2
    THEN /\ handler' = h
         /\ SendResponse(apiCtx, [response EXCEPT !.data = ListData(h)], hs)
    ELSE /\ handler' = TakeItem(h)
         /\ Await("itemLstat", apiCtx, response,
                  IssueOp(hs, "lstat", PathJoin(h.fullPath, Head(h.items))))

\* nextItem (host.ts 805-863), run with the locals h: the listing is
\* published when no child is left, else the next child is taken and stat-ed
NextItem(h, hs) ==
    IF Len(h.items) < 1
    THEN /\ handler' = h
         /\ SendResponse(apiCtx, [response EXCEPT !.data = ListData(h)], hs)
    ELSE /\ handler' = TakeItem(h)
         /\ Await("itemLstat", apiCtx, response,
                  IssueOp(hs, "lstat", PathJoin(h.fullPath, Head(h.items))))

\* FS.readdir(dir, (err, items) => ...)
ReaddirCallback ==
    /\ pc = "readdir"
    /\ Keep
    /\ \E err \in BOOLEAN :
        IF err
        THEN /\ handler' = handler
             /\ MethodFailed(apiCtx, response, hist, "async")
        ELSE NextItem([handler EXCEPT !.items = FsChildren(handler.fullPath)], hist)

\* FS.lstat(fullPath, (err, stats) => ...) for the child i
ItemLstatCallback ==
    /\ pc = "itemLstat"
    /\ Keep
    /\ \E err \in BOOLEAN :
        LET itemPath == PathJoin(handler.fullPath, handler.item)
        IN  IF err
            THEN /\ handler' = CheckReturned(handler)
                 /\ MethodFailed(apiCtx, response, hist, "async")
            ELSE CASE FsKind(itemPath) = "dir" ->
                        IF DirectoryHidden(handler.item)
                        THEN NextItem(ChildDone(handler), hist)
                        ELSE NextItem(ChildDone([handler EXCEPT !.dirs = Append(@, handler.item)]),
                                      hist)
                   [] FsKind(itemPath) = "file" ->
                        /\ handler' = CheckVisibility(handler)
                        /\ Await("itemVisible", apiCtx, response, hist)
                   [] OTHER ->
                        NextItem(ChildDone(handler), hist)

\* mutant: the child is pushed whatever isFileVisible resolved with
PushFile_Always(h, isVisible) == [h EXCEPT !.files = Append(@, h.item)]

\* if (isVisible) { files.push(...) } (host.ts 841-851)
PushFile(h, isVisible) == IF isVisible THEN [h EXCEPT !.files = Append(@, h.item)] ELSE h

\* apiCtx.request.user.isFileVisible(fullPath) settles for the child i
ItemVisibleCallback ==
    /\ pc = "itemVisible"
    /\ Keep
    /\ \E outcome \in { "true", "false", "reject" } :
        IF outcome = "reject"
        THEN /\ handler' = CheckReturned(handler)
             /\ MethodFailed(apiCtx, response, hist, "async")
        ELSE NextItem(ChildDone(PushFile(handler, outcome = "true")),
                      [hist EXCEPT !.visibility = @ \cup { <<handler.item, outcome = "true">> }])

(***************************************************************************)
(* A promise returned by a function of another module settles              *)
(* (host.ts 409-417)                                                       *)
(***************************************************************************)
MethodResultSettled ==
    /\ pc = "methodResult"
    /\ Keep
    /\ handler' = handler
    /\ \E resolved \in BOOLEAN :
        IF resolved
        THEN SendResponse(EffectOnContext(apiCtx, handler.effect),
                          EffectOnResponse(response, handler.effect), hist)
        ELSE MethodFailed(apiCtx, response, hist, "async")

(***************************************************************************)
(* sendResponse: after compressForResponse (host.ts 372-400)               *)
(***************************************************************************)
\* sendResponseData(finalDataToSend) on the ServerResponse r: the response
\* after it, and whether it threw.
\*   badHead   writeHead rejects the status code or the headers
\*   badChunk  the chunk cannot be written (asBuffer or write throws)
\*   rewrite   what writeHead does on a response whose status line is
\*             written already: it writes another one (TRUE) or throws
\*             (FALSE); which one depends on the runtime
sendResponseData(r, ac, finalDataToSend, badHead, badChunk, rewrite) ==
    LET r1 == [r EXCEPT !.heads = @ + 1, !.status = ac.statusCode, !.headers = HeadersOf(ac)]
        r2 == [r1 EXCEPT !.body = Append(@, finalDataToSend)]
        r3 == [r2 EXCEPT !.ends = @ + 1]
    IN  IF badHead \/ (r.heads > 0 /\ ~rewrite) THEN [ r |-> r,  threw |-> TRUE ]
        ELSE IF badChunk THEN [ r |-> r1, threw |-> TRUE ]
        ELSE [ r |-> r3, threw |-> FALSE ]

\* what compressForResponse settles with: resolved with a content encoding,
\* resolved without one (the data is passed through), or rejected
CompressOutcomes == { "gzip", "plain", "rejected" }

\* .then((compressResult) => ...): the header is added when the result names
\* an encoding
WithContentEncoding(ac, outcome) ==
    IF outcome = "gzip" THEN [ac EXCEPT !.hasHeaders = TRUE, !.contentEncoding = "gzip"] ELSE ac

\* compressResult.dataToSend
DataToSend(data, outcome) == IF outcome = "gzip" THEN Compressed(data) ELSE data

\* does the .catch() of the chain run after the .then() callback threw?
CatchesSendFailure == TRUE

\* compressForResponse(...).then(...).catch(...): the promise settles, the
\* then callback sends; the catch callback sends responseData when the
\* promise was rejected and also when the then callback threw; what the
\* catch callback throws is caught by nobody
CompressCallback ==
    /\ pc = "compress"
    /\ Keep
    /\ handler' = handler
    /\ response' = response
    /\ responseData' = responseData
    /\ \E outcome \in CompressOutcomes, badHead \in BOOLEAN, badData \in BOOLEAN,
          badCompressed \in BOOLEAN, rewrite \in BOOLEAN :
        LET ac1   == WithContentEncoding(apiCtx, outcome)
            first == IF outcome = "rejected"
                     THEN [ r |-> resp, threw |-> TRUE ]
                     ELSE sendResponseData(resp, ac1, DataToSend(responseData, outcome), badHead,
                                           IF outcome = "gzip" THEN badCompressed ELSE badData,
                                           rewrite)
            retry == first.threw /\ (outcome = "rejected" \/ CatchesSendFailure)
            last  == IF retry
                     THEN sendResponseData(first.r, ac1, responseData, badHead, badData, rewrite)
                     ELSE first
        IN  /\ apiCtx' = ac1
            /\ resp' = last.r
            /\ hist' = [hist EXCEPT !.compress = outcome,
                                    !.retried = retry /\ outcome # "rejected"]
            /\ pc' = IF last.threw THEN "unhandled" ELSE "closed"

(***************************************************************************)
(* The request context is dropped when its response is complete            *)
(***************************************************************************)
Release ==
    /\ pc = "closed"
    /\ pc' = "idle"
    /\ req' = NoRequest
    /\ config' = config
    /\ host' = host
    /\ nav' = nav
    /\ apiCtx' = NewApiContext
    /\ response' = NewApiResponse
    /\ resp' = NewServerResponse
    /\ handler' = NoHandler
    /\ responseData' = NoPayload
    /\ hist' = NoHist

Next ==
    \/ RequestListener
    \/ ExistsCallback
    \/ LstatCallback
    \/ IsFileVisibleCallback
    \/ ReadFileCallback
    \/ OpenTextDocumentCallback
    \/ ShowTextDocumentCallback
    \/ ReaddirCallback
    \/ ItemLstatCallback
    \/ ItemVisibleCallback
    \/ MethodResultSettled
    \/ CompressCallback
    \/ Release

Spec == Init /\ [][Next]_vars

\* every callback the request waits for is eventually called
Callbacks ==
    \/ ExistsCallback
    \/ LstatCallback
    \/ IsFileVisibleCallback
    \/ ReadFileCallback
    \/ OpenTextDocumentCallback
    \/ ShowTextDocumentCallback
    \/ ReaddirCallback
    \/ ItemLstatCallback
    \/ ItemVisibleCallback
    \/ MethodResultSettled
    \/ CompressCallback

FairSpec == Spec /\ WF_vars(Callbacks)

(***************************************************************************)
(* A method at work on its ApiContext (host.ts 296-351, 408-420)           *)
(***************************************************************************)
\* how many calls of a method on its ApiContext are followed
MaxOps == 3

\* the request whose method is followed
MethodRequest == [ path |-> Slash(W_api) \o Slash(W_mod), method |-> "GET", user |-> Guest ]

\* handleApi has built apiCtx and calls method(apiCtx), host.ts 408
ContextInit ==
    /\ pc = "method"
    /\ req = MethodRequest
    /\ config \in [ withDot : WithDotValues ]
    /\ apiCtx = NewApiContext
    /\ response = NewApiResponse
    /\ resp = NewServerResponse
    /\ handler = NoHandler
    /\ responseData = NoPayload
    /\ hist = [NoHist EXCEPT !.routed = TRUE, !.loads = { W_mod }, !.method = "handler"]
    /\ host = ListeningApiHost
    /\ nav = <<>>

\* the method goes on after a call that left request and response alone
MethodCalls(op, ac, envelope) ==
    /\ Keep
    /\ handler' = [handler EXCEPT !.calls = Append(@, op)]
    /\ apiCtx' = ac
    /\ response' = envelope
    /\ resp' = resp
    /\ responseData' = responseData
    /\ hist' = hist
    /\ pc' = pc

MimeArguments == { "", "text/plain" }

\* ac.setContent(newContent, mime)
CallSetContent ==
    /\ pc = "method"
    /\ Len(handler.calls) < MaxOps
    /\ \E mime \in MimeArguments :
            MethodCalls("setContent", setContent(apiCtx, CustomContent, mime), response)

\* ac.sendNotFound()
CallSendNotFound ==
    /\ pc = "method"
    /\ Len(handler.calls) < MaxOps
    /\ MethodCalls("sendNotFound", sendNotFound(apiCtx), response)

\* ac.sendMethodNotAllowed()
CallSendMethodNotAllowed ==
    /\ pc = "method"
    /\ Len(handler.calls) < MaxOps
    /\ MethodCalls("sendMethodNotAllowed", sendMethodNotAllowed(apiCtx), response)

\* ac.response.data = ...: a TypeError when ac.response was deleted, which
\* the catch of handleApi answers
AssignResponseData ==
    /\ pc = "method"
    /\ Len(handler.calls) < MaxOps
    /\ IF apiCtx.hasResponse
       THEN MethodCalls("data", apiCtx, [response EXCEPT !.data.kind = "custom"])
       ELSE /\ Keep
            /\ handler' = [handler EXCEPT !.calls = Append(@, "data")]
            /\ MethodFailed(apiCtx, response, hist, "sync")

\* the method returns nothing: sendResponse(), host.ts 418-420
MethodReturns ==
    /\ pc = "method"
    /\ Keep
    /\ handler' = handler
    /\ SendResponse(apiCtx, response, hist)

ContextNext ==
    \/ CallSetContent
    \/ CallSendNotFound
    \/ CallSendMethodNotAllowed
    \/ AssignResponseData
    \/ MethodReturns

ContextSpec == ContextInit /\ [][ContextNext]_vars

(***************************************************************************)
(* Following the links of listings (host.ts 741-783, 935-987)              *)
(***************************************************************************)
\* how deep below the workspace root the directories of the tree lie
MaxDepth == 2

\* the names of the directories of the tree, in the order readdir returns them
BrowseNames == << W_d, W_hidden, W_backslash, W_percent >>

RECURSIVE NamePaths(_)
NamePaths(n) ==
    IF n = 0 THEN { <<>> }
    ELSE NamePaths(n - 1) \cup { Append(p, BrowseNames[i]) :
                                    p \in NamePaths(n - 1), i \in 1..Len(BrowseNames) }

\* the tree: every name is a directory in every directory down to MaxDepth
BrowseDirs == { RootPath \o p : p \in NamePaths(MaxDepth) }

\* FS.readdir of a directory of the tree
BrowseChildren(dir) ==
    IF dir \in BrowseDirs /\ Len(dir) - Len(RootPath) < MaxDepth THEN BrowseNames ELSE <<>>

\* handleDirectory for a directory of the tree whose children are all
\* directories: the dotted ones are pushed only when withDot is on
BrowseListing(dir) ==
    ListData([NoHandler EXCEPT !.fullPath = dir,
                               !.dirs = SelectSeq(BrowseChildren(dir),
                                                  LAMBDA n : ~DirectoryHidden(n))])

\* the URL a client builds for a directory: /api/workspace and the encoded names
UrlOf(dir) ==
    LET rest == SubSeq(dir, Len(RootPath) + 1, Len(dir))
    IN  IF Len(rest) = 0 THEN API_WORKSPACE
        ELSE API_WORKSPACE \o Slash(EncodedJoin(rest))

NoAnswer == [ url |-> <<>>, status |-> 0, dir |-> <<>>, list |-> NoData ]

\* GET pathname as request() answers it in the tree (host.ts 935-987): 500
\* when decoding throws, 404 outside the workspace, for no directory and for
\* a hidden one, else the listing
BrowseGet(pathname) ==
    IF ResourceDecodeThrows(pathname)
    THEN [NoAnswer EXCEPT !.url = pathname, !.status = 500]
    ELSE LET fullPath == FullPath(pathname)
         IN  IF NotInWorkspace(fullPath) \/ fullPath \notin BrowseDirs
                    \/ DirectoryHidden(basename(fullPath))
             THEN [NoAnswer EXCEPT !.url = pathname, !.status = 404, !.dir = fullPath]
             ELSE [ url |-> pathname, status |-> 200, dir |-> fullPath,
                    list |-> BrowseListing(fullPath) ]

\* the client asks for a directory of the tree
BrowseStart ==
    /\ nav = <<>>
    /\ \E dir \in BrowseDirs : nav' = << BrowseGet(UrlOf(dir)) >>
    /\ UNCHANGED << pc, req, config, apiCtx, response, resp, handler, responseData, hist, host >>

\* the client follows the path of an entry of dirs
BrowseChild ==
    /\ Len(nav) = 1
    /\ nav[1].status = 200
    /\ \E i \in 1..Len(nav[1].list.dirs) :
            nav' = Append(nav, BrowseGet(nav[1].list.dirs[i].path))
    /\ UNCHANGED << pc, req, config, apiCtx, response, resp, handler, responseData, hist, host >>

\* the client follows the parent link of the listing it got last
BrowseParent ==
    /\ Len(nav) = 2
    /\ nav[2].status = 200
    /\ nav[2].list.hasParent
    /\ nav' = Append(nav, BrowseGet(nav[2].list.parent))
    /\ UNCHANGED << pc, req, config, apiCtx, response, resp, handler, responseData, hist, host >>

BrowseNext ==
    \/ BrowseStart
    \/ BrowseChild
    \/ BrowseParent

BrowseSpec == Init /\ [][BrowseNext]_vars

(***************************************************************************)
(* ApiHost.start and ApiHost.stop (host.ts 461-636)                        *)
(***************************************************************************)
\* the calls whose promise is not settled yet
PendingCalls(h) == { k \in 1..Len(h.calls) : h.calls[k].result = "pending" }

\* the servers of the host that hold a socket
ActiveServers(h) ==
    { s \in 1..Len(h.servers) : h.servers[s].state \in { "bound", "listening" } }

\* is the port taken by a socket of this host?
PortHeld(h, port) == \E s \in ActiveServers(h) : h.servers[s].port = port

\* completed(err, result) of createSimplePromiseCompletedAction: reject with
\* err when there is one, resolve with result otherwise
completed(err, result) ==
    IF err THEN "rejected" ELSE IF result THEN "true" ELSE "false"

NewCall(h, op, port) ==
    [ op |-> op, port |-> port, serverAtCall |-> h.server,
      pendingAtCall |-> Cardinality(PendingCalls(h)), srv |-> NoServer, err |-> FALSE,
      result |-> "pending" ]

\* start(port), host.ts 482-599, up to the return of listen():
\*   createThrows  createServer or a readFileSync of the ssl files throws
\*   inUse         the port is held by another process
start(h, port, createThrows, inUse) ==
    LET call == NewCall(h, "start", port)
        newServer == Len(h.servers) + 1
        bound == ~inUse /\ ~PortHeld(h, port)
    IN  IF h.server # NoServer
        THEN [h EXCEPT !.calls = Append(@, [call EXCEPT !.result = completed(FALSE, FALSE)])]
        ELSE IF createThrows
        THEN [h EXCEPT !.calls = Append(@, [call EXCEPT !.result = completed(TRUE, FALSE)])]
        ELSE [h EXCEPT !.servers = Append(@, [ port |-> port,
                                               state |-> IF bound THEN "bound" ELSE "failed" ]),
                       !.calls = Append(@, [call EXCEPT !.srv = newServer])]

\* the callback of newServer.listen, host.ts 591-594
listening(h, k) ==
    [h EXCEPT !.server = h.calls[k].srv,
              !.servers[h.calls[k].srv].state = "listening",
              !.calls[k].result = completed(FALSE, TRUE)]

\* mutant: the 'error' handler records the server that failed to bind
error_RecordsServer(h, k) ==
    [h EXCEPT !.server = h.calls[k].srv,
              !.servers[h.calls[k].srv].state = "dead",
              !.calls[k].result = completed(TRUE, FALSE)]

\* the 'error' handler of newServer, host.ts 587-589
error(h, k) ==
    [h EXCEPT !.servers[h.calls[k].srv].state = "dead",
              !.calls[k].result = completed(TRUE, FALSE)]

\* stop(), host.ts 612-635, up to the return of close(): a server that is
\* not listening any more hands an error to the callback of close
stop(h) ==
    LET call == NewCall(h, "stop", 0)
        oldServer == h.server
    IN  IF oldServer = NoServer
        THEN [h EXCEPT !.calls = Append(@, [call EXCEPT !.result = completed(FALSE, FALSE)])]
        ELSE IF h.servers[oldServer].state = "listening"
        THEN [h EXCEPT !.servers[oldServer].state = "closing",
                       !.calls = Append(@, [call EXCEPT !.srv = oldServer])]
        ELSE [h EXCEPT !.calls = Append(@, [call EXCEPT !.srv = oldServer, !.err = TRUE])]

\* the callback of oldServer.close, host.ts 622-630
closed(h, k) ==
    IF h.calls[k].err
    THEN [h EXCEPT !.calls[k].result = completed(TRUE, FALSE)]
    ELSE [h EXCEPT !.server = NoServer,
                   !.servers[h.calls[k].srv].state = "closed",
                   !.calls[k].result = completed(FALSE, TRUE)]

Start ==
    /\ Len(host.calls) < MaxCalls
    /\ \E port \in Ports, createThrows, inUse \in BOOLEAN :
            host' = start(host, port, createThrows, inUse)
    /\ UNCHANGED reqVars

ListenCallback ==
    /\ \E k \in PendingCalls(host) :
            /\ host.calls[k].op = "start"
            /\ host.servers[host.calls[k].srv].state = "bound"
            /\ host' = listening(host, k)
    /\ UNCHANGED reqVars

ErrorCallback ==
    /\ \E k \in PendingCalls(host) :
            /\ host.calls[k].op = "start"
            /\ host.servers[host.calls[k].srv].state = "failed"
            /\ host' = error(host, k)
    /\ UNCHANGED reqVars

Stop ==
    /\ Len(host.calls) < MaxCalls
    /\ host' = stop(host)
    /\ UNCHANGED reqVars

CloseCallback ==
    /\ \E k \in PendingCalls(host) :
            /\ host.calls[k].op = "stop"
            /\ host' = closed(host, k)
    /\ UNCHANGED reqVars

HostInit == RequestInit /\ host = NewApiHost

HostNext ==
    \/ Start
    \/ ListenCallback
    \/ ErrorCallback
    \/ Stop
    \/ CloseCallback

HostSpec == HostInit /\ [][HostNext]_vars

\* the callbacks of listen, 'error' and close are eventually called
HostCallbacks ==
    \/ ListenCallback
    \/ ErrorCallback
    \/ CloseCallback

HostFairSpec == HostSpec /\ WF_vars(HostCallbacks)

(***************************************************************************)
(* Properties                                                              *)
(***************************************************************************)
InFlight == pc # "idle"

Authenticated == InFlight /\ req.user.kind # "none"

\* the request is over: no callback of it is pending
Finished == pc \in { "closed", "unhandled" }

\* C1: a request for which no user is resolved is answered with exactly one
\* 401, whatever its path and verb; its path is matched against no route, no
\* module name is handed to require() and no method is invoked.
C1_UnauthorizedIs401 ==
    (InFlight /\ req.user.kind = "none") =>
        /\ pc = "closed"
        /\ resp.status = 401
        /\ resp.heads = 1
        /\ resp.ends = 1
        /\ ~hist.routed
        /\ hist.loads = {}
        /\ hist.method = "undefined"
        /\ hist.fsOps = {}
        /\ hist.serialized = 0

\* a request without a user for the workspace module, answered 401
C1_Witness ==
    /\ pc = "closed"
    /\ req.user = NoUser
    /\ req.path = Slash(W_api) \o Slash(W_workspace) \o Slash(W_d)
    /\ req.method = "GET"
    /\ resp.status = 401

\* C2: every request gets exactly one terminal response: the status line is
\* written at most once, the stream is ended at most once, and a request
\* whose processing is over has been ended.
C2_ExactlyOneResponse ==
    /\ resp.heads <= 1
    /\ resp.ends <= 1
    /\ Finished => resp.ends = 1

\* C3: a method is invoked only after authentication and routing, and every
\* request that was received is eventually closed.
C3_Lifecycle ==
    /\ [](hist.method # "undefined" => (req.user.kind # "none" /\ hist.routed))
    /\ (InFlight ~> pc = "closed")

\* the answer of the workspace method to a path that does not exist: the
\* context is set up for a 404 that carries neither envelope, content nor
\* type header, and any status line written says 404
NotFoundAnswer ==
    /\ pc \in { "compress", "closed", "unhandled" }
    /\ apiCtx.statusCode = 404
    /\ ~apiCtx.hasResponse
    /\ ~apiCtx.hasContent
    /\ apiCtx.fileType = ""
    /\ responseData = NoPayload
    /\ resp.heads > 0 => (resp.status = 404 /\ resp.headers.fileType = "")
    /\ \A i \in 1..Len(resp.body) : resp.body[i].kind = "undefined"

\* the request reached api/workspace and its path was decoded
WorkspaceResolved == hist.method = "request" /\ ~ResourceDecodeThrows(req.path)

\* C4: a workspace request whose decoded path resolves outside the
\* workspace root is answered 404 exactly like a path that does not exist,
\* and no filesystem or editor operation is issued against a location
\* outside the root.
C4_PathEscapeIsNotFound ==
    /\ \A op \in hist.fsOps : InWorkspace(op[2])
    /\ WorkspaceResolved =>
            LET fullPath == FullPath(req.path)
                inside == InWorkspace(fullPath)
            IN  /\ ~inside => (hist.fsOps = {} /\ NotFoundAnswer)
                /\ (inside /\ pc # "exists" /\ FsKind(fullPath) = "none") =>
                        (hist.fsOps = { <<"exists", fullPath>> } /\ NotFoundAnswer)

\* a percent-encoded ".." that leaves the root, answered 404
C4_Witness ==
    /\ pc = "closed"
    /\ req.path = Slash(W_api) \o Slash(W_workspace) \o Slash(W_encdotdot) \o Slash(W_d)
    /\ handler.fullPath = << <<"r">>, W_d >>
    /\ resp.status = 404
    /\ resp.ends = 1
    /\ hist.fsOps = {}

\* the path is exactly /api or begins with /api/, in any case
StrictApiPath(path) ==
    /\ Len(path) >= 4
    /\ normalizeString(SubSeq(path, 1, 4)) = Slash(W_api)
    /\ Len(path) > 4 => path[5] = "/"

\* C5: an authenticated request whose path is neither /api nor begins with
\* /api/ is answered 404; no module is loaded and no method invoked for it.
C5_NonApiPathIs404 ==
    (Authenticated /\ ~StrictApiPath(req.path)) =>
        /\ hist.loads = {}
        /\ hist.method = "undefined"
        /\ pc = "closed"
        /\ resp.status = 404

\* C6: an API request whose module segment names a module that cannot be
\* loaded is answered with exactly one 404, for every verb; no method is
\* invoked and the response pipeline is not entered.
C6_LoadFailureIs404 ==
    LET modName == ModName(req.path)
    IN  (Authenticated /\ IsApiRequest(req.path) /\ ~isEmptyString(modName)
            /\ modName \notin Modules) =>
            /\ pc = "closed"
            /\ resp.status = 404
            /\ resp.heads = 1
            /\ resp.ends = 1
            /\ hist.loads = { modName }
            /\ hist.method = "undefined"
            /\ hist.serialized = 0
            /\ hist.compress = "none"

\* a POST to a module that does not exist, answered 404
C6_Witness ==
    /\ pc = "closed"
    /\ req.user = Guest
    /\ req.method = "POST"
    /\ req.path = Slash(W_api) \o Slash(W_d) \o Slash(W_f)
    /\ hist.loads = { W_d }
    /\ resp.status = 404

\* the module of the request loads and exports no function named like the
\* request method
NoFunctionForMethod ==
    /\ Authenticated
    /\ IsApiRequest(req.path)
    /\ LET modName == ModName(req.path)
       IN  modName \in Modules /\ ExportType(modName, ctxMethod(req)) # "function"

\* C7: a module that loads but exports no function named like the request
\* method (also when the export of that name is no function) yields status
\* 405, and the JSON envelope is not sent.
C7_NoMethodIs405 ==
    NoFunctionForMethod =>
        /\ pc \in { "compress", "closed", "unhandled" }
        /\ hist.method = "notAllowed"
        /\ apiCtx.statusCode = 405
        /\ responseData.kind # "json"
        /\ resp.heads > 0 => resp.status = 405
        /\ \A i \in 1..Len(resp.body) : resp.body[i].kind # "json"
        /\ pc = "closed" => (resp.status = 405 /\ resp.ends = 1)

\* POST to the module whose export "post" is no function, answered 405
C7_Witness ==
    /\ pc = "closed"
    /\ req.path = Slash(W_api) \o Slash(W_mod)
    /\ req.method = "POST"
    /\ ExportType(W_mod, "post") = "value"
    /\ resp.status = 405
    /\ resp.ends = 1
    /\ Len(resp.body) = 1

\* the ApiResponse the root resource answers with for a user
RootEnvelope(user) ==
    [ code |-> 0,
      data |-> [ NoData EXCEPT !.kind = "root",
                               !.addr = "remoteAddress",
                               !.time = "YYYY-MM-DD HH:mm:ss",
                               !.hasMe = (user.kind = "account"),
                               !.meName = IF user.kind = "account" THEN <<"b", "o", "b">>
                                          ELSE <<>> ] ]

\* C8: the root resource (/api with no further segment) answers 200 with
\* data holding addr and time; data.me is present, with me.name the
\* normalized account name, exactly when the user is no guest.
C8_RootResource ==
    (Authenticated /\ IsApiRequest(req.path) /\ ApiParts(req.path) = <<>>) =>
        /\ pc \in { "compress", "closed", "unhandled" }
        /\ hist.method = "root"
        /\ apiCtx.statusCode = 200
        /\ apiCtx.hasResponse
        /\ response = RootEnvelope(req.user)
        /\ response.data.hasMe <=> ~req.user.isGuest
        /\ responseData = JsonPayload(RootEnvelope(req.user))
        /\ resp.heads > 0 => resp.status = 200
        /\ \A i \in 1..Len(resp.body) :
                resp.body[i].kind = "json" /\ resp.body[i].envelope = RootEnvelope(req.user)

\* /api requested by an account: 200 and me.name in the envelope sent
C8_Witness ==
    /\ pc = "closed"
    /\ req.path = Slash(W_api)
    /\ req.user = Account
    /\ resp.status = 200
    /\ resp.ends = 1
    /\ Len(resp.body) = 1
    /\ resp.body[1].envelope.data.hasMe
    /\ resp.body[1].envelope.data.meName = <<"b", "o", "b">>

\* C9: when a method throws or the promise it returned is rejected, the
\* request is answered with one error response (status >= 500) and nothing
\* of the success pipeline (serialize, compress, writeHead, write) runs.
C9_MethodFailureIsErrorResponse ==
    /\ hist.failure # "none" =>
            /\ pc = "closed"
            /\ resp.status >= 500
            /\ resp.heads = 1
            /\ resp.ends = 1
            /\ resp.body = <<>>
            /\ ~resp.headers.sent
            /\ hist.serialized = 0
            /\ hist.compress = "none"
    /\ (hist.method = "handler" /\ pc \in { "compress", "unhandled" }) => hist.failure = "none"
    /\ (hist.serialized > 0 /\ ~StringifyThrows(apiCtx, response)) => hist.failure = "none"

\* a function of another module threw, and the request was answered 500
C9_Witness ==
    /\ pc = "closed"
    /\ hist.method = "handler"
    /\ hist.failure = "sync"
    /\ resp.status = 500
    /\ resp.ends = 1

\* C10: in a response of the success pipeline the Content-encoding header is
\* present exactly when the body written is the compressed payload.
C10_EncodingHeaderIffCompressed ==
    (pc = "closed" /\ hist.compress \in CompressOutcomes) =>
        /\ Len(resp.body) >= 1
        /\ (resp.headers.contentEncoding # "") <=> resp.body[Len(resp.body)].gz
        /\ hist.compress = "rejected" =>
                (resp.body[Len(resp.body)] = responseData /\ resp.status = apiCtx.statusCode)

\* the start() call k created a server, and that server got its port
TookPort(k) ==
    /\ host.calls[k].op = "start"
    /\ host.calls[k].srv # NoServer
    /\ host.servers[host.calls[k].srv].state \notin { "failed", "dead" }

\* C11: of two start() calls with no stop() call between them, the first of
\* which got its port, the second opens no socket and resolves false, in
\* every interleaving with the listen callback; without a stop() the host
\* never holds more than one socket.
C11_SecondStartIsNoop ==
    /\ \A i, j \in 1..Len(host.calls) :
            (/\ i < j
             /\ TookPort(i)
             /\ host.calls[j].op = "start"
             /\ \A k \in (i + 1)..(j - 1) : host.calls[k].op # "stop") =>
                (host.calls[j].srv = NoServer /\ host.calls[j].result = "false")
    /\ (\A k \in 1..Len(host.calls) : host.calls[k].op # "stop") =>
            Cardinality(ActiveServers(host)) <= 1

\* the call k was made when every earlier call was settled
Sequential(k) == host.calls[k].pendingAtCall = 0

\* the server of call k was created by no earlier call
FreshServer(k) ==
    /\ host.calls[k].srv # NoServer
    /\ \A i \in 1..(k - 1) : host.calls[i].op = "start" => host.calls[i].srv # host.calls[k].srv

\* what C12 says of the calls made so far
StopCalls ==
    \A k \in 1..Len(host.calls) :
        LET c == host.calls[k]
        IN  /\ (c.op = "stop" /\ c.serverAtCall = NoServer) =>
                    (c.result = "false" /\ c.srv = NoServer)
            /\ (c.op = "stop" /\ c.serverAtCall # NoServer /\ ~c.err) =>
                    (c.result \in { "pending", "true" } /\ c.srv = c.serverAtCall)
            /\ (c.op = "stop" /\ c.result = "true") => host.servers[c.srv].state = "closed"
            /\ (c.op = "start" /\ c.result = "false") => c.serverAtCall # NoServer
            /\ (c.op = "start" /\ c.result = "true") =>
                    (FreshServer(k) /\ host.servers[c.srv].state # "bound")
            /\ (/\ c.op = "start"
                /\ Sequential(k)
                /\ k > 1
                /\ host.calls[k - 1].op = "stop"
                /\ host.calls[k - 1].result = "true") =>
                    (c.result # "false" /\ (c.srv = NoServer \/ FreshServer(k)))

\* what C12 says of one step of the host
StopSteps ==
    /\ (/\ Len(host'.calls) = Len(host.calls) + 1
        /\ host'.calls[Len(host'.calls)].op = "stop"
        /\ host.server = NoServer) =>
            (host'.server = host.server /\ host'.servers = host.servers)
    /\ \A k \in 1..Len(host.calls) :
            (/\ host.calls[k].op = "stop"
             /\ host.calls[k].result = "pending"
             /\ host'.calls[k].result = "true") =>
                (host'.server = NoServer /\ ActiveServers(host') \subseteq ActiveServers(host))

\* the stop() call k has called close on a listening server and waits
StopClosing(k) ==
    IF k > Len(host.calls) THEN FALSE
    ELSE /\ host.calls[k].op = "stop"
         /\ host.calls[k].result = "pending"
         /\ ~host.calls[k].err

\* the stop() call k resolved true and its server is closed
StopClosed(k) ==
    IF k > Len(host.calls) THEN FALSE
    ELSE /\ host.calls[k].op = "stop"
         /\ host.calls[k].result = "true"
         /\ host.servers[host.calls[k].srv].state = "closed"

\* C12: stop() with no server recorded resolves false and changes nothing
\* of the host; stop() on a listening host closes the recorded server,
\* resolves true once the close callback is called and leaves no server
\* recorded; a start() that follows it creates a fresh server and does not
\* resolve false.
C12_StopThenStart ==
    /\ []StopCalls
    /\ [][StopSteps]_vars
    /\ \A k \in 1..MaxCalls : StopClosing(k) ~> StopClosed(k)

\* start, stop, start, each settled before the next: true, true, true, and
\* the second start listens on a server of its own
C12_Witness ==
    /\ Len(host.calls) = 3
    /\ \A k \in 1..3 : Sequential(k) /\ host.calls[k].result = "true"
    /\ host.calls[1].op = "start" /\ host.calls[2].op = "stop" /\ host.calls[3].op = "start"
    /\ host.calls[3].srv = 2
    /\ host.server = 2
    /\ host.servers[1].state = "closed"
    /\ host.servers[2].state = "listening"

\* C13: a start() whose bind fails rejects and never records its server;
\* called on a host that was not running, it leaves the host not running:
\* the next stop() resolves false, the next start() does not resolve false
\* and creates a server of its own.
C13_BindFailureLeavesNotRunning ==
    \A k \in 1..Len(host.calls) :
        LET c == host.calls[k]
        IN  (c.op = "start" /\ c.srv # NoServer
                /\ host.servers[c.srv].state \in { "failed", "dead" }) =>
                /\ c.result \in { "pending", "rejected" }
                /\ c.result = "rejected" <=> host.servers[c.srv].state = "dead"
                /\ host.server # c.srv
                /\ c.srv \notin ActiveServers(host)
                /\ (Sequential(k) /\ c.result = "rejected" /\ Len(host.calls) = k) =>
                        host.server = NoServer
                /\ (Sequential(k) /\ k < Len(host.calls) /\ Sequential(k + 1)) =>
                        LET d == host.calls[k + 1]
                        IN  /\ d.serverAtCall = NoServer
                            /\ d.op = "stop" => d.result = "false"
                            /\ d.op = "start" =>
                                    (d.result # "false"
                                        /\ (d.srv = NoServer \/ FreshServer(k + 1)))

\* the port is in use: start() rejects, then stop() resolves false, then a
\* start() on the other port resolves true
C13_Witness ==
    /\ Len(host.calls) = 3
    /\ \A k \in 1..3 : Sequential(k)
    /\ host.calls[1].op = "start" /\ host.calls[1].result = "rejected"
    /\ host.calls[1].srv = 1
    /\ host.servers[1].state = "dead"
    /\ host.calls[2].op = "stop" /\ host.calls[2].result = "false"
    /\ host.calls[3].op = "start" /\ host.calls[3].result = "true"
    /\ host.server = 2

\* the method has called op on its ApiContext
Called(op) == \E i \in 1..Len(handler.calls) : handler.calls[i] = op

\* sendResponse has built the payload of a method's ApiContext
AtSendTime == pc = "compress" /\ hist.method = "handler"

\* C14 as stated: when the response is sent, exactly one of content and
\* response is populated.
C14_ExactlyOnePopulated ==
    AtSendTime => (apiCtx.hasResponse <=> ~apiCtx.hasContent)

\* C14: content and response are never populated together; response is
\* populated until the first setContent, sendNotFound or
\* sendMethodNotAllowed, content from the first setContent on, so that
\* neither is populated after sendNotFound or sendMethodNotAllowed without a
\* setContent; the payload sent is the JSON text of response, the raw
\* content, or nothing.
C14_AtMostOnePopulated ==
    hist.method = "handler" =>
        /\ ~(apiCtx.hasResponse /\ apiCtx.hasContent)
        /\ apiCtx.hasContent <=> Called("setContent")
        /\ apiCtx.hasResponse <=>
                ~(Called("setContent") \/ Called("sendNotFound") \/ Called("sendMethodNotAllowed"))
        /\ AtSendTime =>
                responseData.kind = (IF apiCtx.hasResponse THEN "json"
                                     ELSE IF apiCtx.hasContent THEN "raw"
                                     ELSE "undefined")

\* the method called sendNotFound and nothing else: neither is populated
\* when the response is sent
C14_Witness ==
    /\ AtSendTime
    /\ handler.calls = << "sendNotFound" >>
    /\ ~apiCtx.hasResponse
    /\ ~apiCtx.hasContent
    /\ responseData.kind = "undefined"

\* the filesystem method has answered (not with an error response) a
\* request whose path decodes
WorkspaceAnswered ==
    /\ hist.method = "request"
    /\ resp.heads > 0
    /\ resp.status < 500
    /\ ~ResourceDecodeThrows(req.path)

\* C15: every response of the filesystem method for a path that is a
\* directory carries the type header with the value directory, for a path
\* that is a regular file with the value file, whatever the verb and the
\* outcome (200, 404 for a hidden directory, 405).
C15_TypeHeaderAlways ==
    WorkspaceAnswered =>
        LET fullPath == FullPath(req.path)
        IN  InWorkspace(fullPath) =>
                /\ FsKind(fullPath) = "dir" => resp.headers.fileType = "directory"
                /\ FsKind(fullPath) = "file" => resp.headers.fileType = "file"

\* the names of the entries of a list
EntryNames(entries) == [i \in 1..Len(entries) |-> entries[i].name]

\* are the names in the order of their normalized form?
SortedByName(names) ==
    \A i, j \in 1..Len(names) :
        i < j => ~StringLess(normalizeString(names[j]), normalizeString(names[i]))

\* a listing is what the method answers with
ListingReturned == response.data.kind = "list"

\* C16: in every listing dirs and files are each in the order of the
\* normalized names of their entries, whatever order readdir returned the
\* children in.
C16_ListingSorted ==
    ListingReturned =>
        /\ SortedByName(EntryNames(response.data.dirs))
        /\ SortedByName(EntryNames(response.data.files))

\* the set of the names of a list, and whether no name is listed twice
NameSet(entries) == { entries[i].name : i \in 1..Len(entries) }
NoDuplicate(entries) == Cardinality(NameSet(entries)) = Len(entries)

\* the children of the listed directory that are of a kind
ChildrenOfKind(dir, kind) ==
    { FsChildren(dir)[i] : i \in { k \in 1..Len(FsChildren(dir)) :
                                        FsKind(Append(dir, FsChildren(dir)[k])) = kind } }

\* C17: in every listing files holds exactly the children that are regular
\* files and for which isFileVisible resolved true, dirs exactly the
\* children that are directories and not dotted while withDot is off; no
\* child is listed twice, a child of another kind is in neither list.
C17_ListingMembers ==
    ListingReturned =>
        LET dir == handler.fullPath
        IN  /\ NameSet(response.data.files) =
                    { n \in ChildrenOfKind(dir, "file") : <<n, TRUE>> \in hist.visibility }
            /\ \A n \in NameSet(response.data.files) : <<n, FALSE>> \notin hist.visibility
            /\ NameSet(response.data.dirs) =
                    { n \in ChildrenOfKind(dir, "dir") : ~(hasLeadingDot(n) /\ ~config.withDot) }
            /\ NoDuplicate(response.data.files)
            /\ NoDuplicate(response.data.dirs)
            /\ \A n \in ChildrenOfKind(dir, "other") :
                    n \notin NameSet(response.data.files) \cup NameSet(response.data.dirs)
            /\ \A i \in 1..Len(response.data.files) : response.data.files[i].type = "file"
            /\ \A i \in 1..Len(response.data.dirs) : response.data.dirs[i].type = "dir"

\* the listing of /r/w/d: f was refused, B was approved, d is neither a
\* file nor a directory
C17_Witness ==
    /\ ListingReturned
    /\ pc = "closed"
    /\ handler.fullPath = Append(RootPath, W_d)
    /\ hist.visibility = { <<W_f, FALSE>>, <<W_upper, TRUE>> }
    /\ EntryNames(response.data.files) = << W_upper >>
    /\ response.data.dirs = << >>
    /\ resp.status = 200

\* a GET of the filesystem method for a directory with a dotted base name
\* that has got beyond lstat
DottedDirectoryRequested ==
    /\ hist.method = "request"
    /\ ctxMethod(req) = "get"
    /\ pc \in { "compress", "closed", "unhandled" }
    /\ hist.failure = "none"
    /\ FsKind(handler.fullPath) = "dir"
    /\ hasLeadingDot(basename(handler.fullPath))

\* C18: with withDot off a directory with a dotted base name is left out of
\* the listing of its parent and a GET of it is answered 404 without a
\* readdir; with withDot on it is listed and a GET of it returns its
\* listing.
C18_WithDot ==
    /\ ListingReturned =>
            \A n \in ChildrenOfKind(handler.fullPath, "dir") :
                hasLeadingDot(n) => (n \in NameSet(response.data.dirs) <=> config.withDot)
    /\ DottedDirectoryRequested =>
            IF config.withDot
            THEN /\ ListingReturned
                 /\ apiCtx.statusCode = 200
                 /\ <<"readdir", handler.fullPath>> \in hist.fsOps
                 /\ resp.heads > 0 => resp.status = 200
            ELSE /\ NotFoundAnswer
                 /\ ~ListingReturned
                 /\ \A op \in hist.fsOps : op[1] # "readdir"

\* withDot is on: GET /api/workspace/.h returns the listing of .h
C18_Witness ==
    /\ config.withDot
    /\ pc = "closed"
    /\ handler.fullPath = Append(RootPath, W_hidden)
    /\ ListingReturned
    /\ resp.status = 200
    /\ EntryNames(response.data.files) = << W_f >>

\* the listings the client has got
Listings == { k \in 1..Len(nav) : nav[k].status = 200 }

\* C19: a listing has no parent link exactly when the listed directory is
\* the workspace root; the parent link of any other listing is the API path
\* of the parent directory, which lies in the workspace.
C19_ParentLink ==
    \A k \in Listings :
        /\ ~nav[k].list.hasParent <=> nav[k].dir = RootPath
        /\ nav[k].list.hasParent =>
                /\ ~ResourceDecodeThrows(nav[k].list.parent)
                /\ FullPath(nav[k].list.parent) = ParentDir(nav[k].dir)
                /\ InWorkspace(FullPath(nav[k].list.parent))
                /\ nav[k].list.parent = UrlOf(ParentDir(nav[k].dir))

\* the listing of /r/w/d/%: its parent link is /api/workspace/d
C19_Witness ==
    /\ Len(nav) = 1
    /\ nav[1].status = 200
    /\ nav[1].dir = RootPath \o << W_d, W_percent >>
    /\ nav[1].list.hasParent
    /\ nav[1].list.parent = API_WORKSPACE \o Slash(W_d)

\* C20: the path of every entry C of dirs in the listing of D returns the
\* listing of C, and the parent link of that listing returns the listing of
\* D again; the listing of the workspace root has no parent link.
C20_RoundTrip ==
    /\ Len(nav) >= 1 /\ nav[1].status = 200 /\ nav[1].dir = RootPath => ~nav[1].list.hasParent
    /\ Len(nav) >= 2 =>
            /\ nav[2].status = 200
            /\ \E i \in 1..Len(nav[1].list.dirs) :
                    /\ nav[2].url = nav[1].list.dirs[i].path
                    /\ nav[2].dir = Append(nav[1].dir, nav[1].list.dirs[i].name)
            /\ nav[2].list.hasParent
    /\ Len(nav) >= 3 =>
            /\ nav[3].status = 200
            /\ nav[3].dir = nav[1].dir
            /\ nav[3].list = nav[1].list

\* from the listing of /r/w/d to its child % and back by the parent link
C20_Witness ==
    /\ Len(nav) = 3
    /\ nav[1].dir = Append(RootPath, W_d)
    /\ nav[2].dir = RootPath \o << W_d, W_percent >>
    /\ nav[2].url = API_WORKSPACE \o Slash(W_d) \o <<"/", "%25">>
    /\ nav[3].status = 200
    /\ nav[3].list = nav[1].list

\* a POST for a regular file of the workspace, after its open action
PostedFile ==
    /\ WorkspaceResolved
    /\ ctxMethod(req) = "post"
    /\ FsKind(handler.fullPath) = "file"
    /\ hist.editor # "none"

\* C21: a POST to a regular file never returns the bytes of the file: it
\* asks for the open-in-editor action and answers with the JSON envelope,
\* whose code is 0 when the action succeeded and 1 when it failed, at the
\* opening of the document or at the showing of it.
C21_PostOpensEditor ==
    PostedFile =>
        /\ <<"openTextDocument", handler.fullPath>> \in hist.fsOps \/ hist.editor = "threw"
        /\ <<"readFile", handler.fullPath>> \notin hist.fsOps
        /\ ~apiCtx.hasContent
        /\ pc \in { "compress", "closed", "unhandled" }
        /\ responseData = JsonPayload([NewApiResponse EXCEPT
                                          !.code = IF hist.editor = "shown" THEN 0 ELSE 1])

\* the document was opened but could not be shown: the envelope has code 1
C21_Witness ==
    /\ PostedFile
    /\ hist.editor = "showFailed"
    /\ pc = "closed"
    /\ resp.status = 200
    /\ Len(resp.body) = 1
    /\ resp.body[1].kind = "json"
    /\ resp.body[1].envelope.code = 1

\* the addressed path is missing when the handler looks at it, or is
\* neither a directory nor a regular file
MissingOrSpecial ==
    /\ WorkspaceResolved
    /\ InWorkspace(handler.fullPath)
    /\ pc \notin { "exists", "lstat" }
    /\ \/ FsKind(handler.fullPath) = "none"
       \/ FsKind(handler.fullPath) = "other" /\ hist.lstat = "ok"
       \/ hist.lstat = "ENOENT"

\* C22: a workspace request (GET or POST) for a path inside the workspace
\* that does not exist, or is neither a directory nor a regular file, is
\* answered 404, also when the path stops existing between the existence
\* check and the stat.
C22_MissingIsNotFound == MissingOrSpecial => NotFoundAnswer

\* a POST for a special file, answered 404
C22_Witness ==
    /\ MissingOrSpecial
    /\ FsKind(handler.fullPath) = "other"
    /\ req.method = "POST"
    /\ pc = "closed"
    /\ resp.status = 404

\* a child of the listed directory is being checked
CheckingChild == pc \in { "itemLstat", "itemVisible" }

\* the children lstat was called for
ChildStats == { op[2] : op \in { o \in hist.fsOps : o[1] = "lstat" } } \ { handler.fullPath }

\* the children taken from items so far
TakenChildren ==
    { handler.done[i] : i \in 1..Len(handler.done) }
        \cup (IF handler.item = <<>> THEN {} ELSE { handler.item })

\* C23: during a listing the children are processed one at a time in the
\* order readdir returned them: at most one lstat or visibility check is
\* outstanding, the check of a child is issued only when the children before
\* it are done, and each child is processed exactly once.
C23_OneChildAtATime ==
    /\ Len(handler.checks) <= 1
    /\ CheckingChild =>
            /\ Len(handler.checks) = 1
            /\ handler.checks[1][2] = handler.item
            /\ handler.checks[1][1] = (IF pc = "itemLstat" THEN "lstat" ELSE "isFileVisible")
            /\ handler.done \o << handler.item >> \o handler.items
                    = FsChildren(handler.fullPath)
            /\ ChildStats = { PathJoin(handler.fullPath, c) : c \in TakenChildren }
    /\ response.data.kind = "list" =>
            /\ handler.checks = <<>>
            /\ handler.done = FsChildren(handler.fullPath)

\* the visibility check of the second child of /r/w is outstanding, the
\* first child is done, the third is still in items
C23_Witness ==
    /\ pc = "itemVisible"
    /\ handler.fullPath = RootPath
    /\ handler.done = << W_hidden >>
    /\ handler.checks = << <<"isFileVisible", W_f>> >>
    /\ handler.items = << W_d >>

\* a listing was begun: readdir was called for the directory
ListingBegun == <<"readdir", handler.fullPath>> \in hist.fsOps

\* C24: a listing is published only when every child has been classified;
\* when readdir, the lstat of a child or the visibility check of a child
\* fails, the promise is rejected, the children that are left are not
\* processed and no listing, not a partial one either, is in the response.
C24_NoPartialListing ==
    /\ response.data.kind = "list" =>
            /\ ListingBegun
            /\ hist.failure = "none"
            /\ handler.items = <<>>
            /\ handler.checks = <<>>
            /\ handler.done = FsChildren(handler.fullPath)
    /\ (ListingBegun /\ hist.failure # "none") =>
            /\ pc = "closed"
            /\ resp.status = 500
            /\ resp.body = <<>>
            /\ responseData = NoPayload
            /\ response.data.kind = "undefined"
            /\ handler.checks = <<>>
            /\ ChildStats = { PathJoin(handler.fullPath, c) : c \in TakenChildren }

\* the visibility check of the second child of /r/w was rejected: 500, the
\* third child was never looked at
C24_Witness ==
    /\ ListingBegun
    /\ hist.failure = "async"
    /\ handler.fullPath = RootPath
    /\ handler.done = << W_hidden >>
    /\ handler.item = W_f
    /\ handler.items = << W_d >>
    /\ <<"lstat", RootPath \o << W_d >> >> \notin hist.fsOps
    /\ resp.status = 500

\* a regular file of the workspace is addressed and its lstat succeeded
FileAddressed ==
    /\ WorkspaceResolved
    /\ FsKind(handler.fullPath) = "file"
    /\ hist.lstat = "ok"

\* C25: for a regular file addressed directly, the answer to GET or POST
\* does not depend on the value the visibility check resolves with: true
\* and false lead to the same step of handleFile and to the same status,
\* headers and payload, so a file the listing filters out is still served;
\* only a rejected check changes the outcome, to the error response.
C25_VisibilityIgnored ==
    FileAddressed =>
        /\ pc = "isFileVisible" =>
                \A thrown \in BOOLEAN :
                    FileVisibleThen(TRUE, apiCtx, ctxMethod(req), thrown)
                        = FileVisibleThen(FALSE, apiCtx, ctxMethod(req), thrown)
        /\ (hist.fileVisible \in { "true", "false" } /\ hist.failure = "none"
                /\ pc \in { "compress", "closed", "unhandled" }) =>
                /\ apiCtx.statusCode = 200
                /\ apiCtx.fileType = "file"
                /\ ctxMethod(req) = "get" =>
                        /\ apiCtx.content = handler.fullPath
                        /\ apiCtx.contentType = FILE_MIME
                        /\ responseData = RawPayload(apiCtx)
                /\ ctxMethod(req) = "post" =>
                        /\ ~apiCtx.hasContent
                        /\ apiCtx.contentType = JSON_MIME
                        /\ responseData = JsonPayload([NewApiResponse EXCEPT
                                !.code = IF hist.editor = "shown" THEN 0 ELSE 1])
        /\ (hist.fileVisible = "none" /\ pc \notin { "lstat", "isFileVisible" }) =>
                /\ hist.failure = "async"
                /\ pc = "closed"
                /\ resp.status = 500

\* the visibility check resolved with false and the file was sent
C25_Witness ==
    /\ FileAddressed
    /\ hist.fileVisible = "false"
    /\ req.method = "GET"
    /\ pc = "closed"
    /\ resp.status = 200
    /\ resp.headers.fileType = "file"
    /\ Len(resp.body) = 1
    /\ resp.body[1].kind = "raw"
    /\ resp.body[1].content = handler.fullPath

\* a directory of the workspace is addressed and the handler has answered
DirectoryAnswered ==
    /\ WorkspaceResolved
    /\ FsKind(handler.fullPath) = "dir"
    /\ InWorkspace(handler.fullPath)
    /\ hist.lstat = "ok"
    /\ pc \in { "compress", "closed", "unhandled" }

\* C26: with withDot false a directory whose base name starts with a dot is
\* answered 404 for every verb that reaches the handler, GET and POST
\* alike, like a path that does not exist; only a directory that is not
\* hidden answers 405 to a verb other than GET.
C26_HiddenDirectoryIs404 ==
    DirectoryAnswered =>
        /\ DirectoryHidden(basename(handler.fullPath)) => NotFoundAnswer
        /\ apiCtx.statusCode = 405 => ~DirectoryHidden(basename(handler.fullPath))

\* GET for the dotted directory with withDot false: 404
C26_Witness ==
    /\ DirectoryAnswered
    /\ ~config.withDot
    /\ handler.fullPath = RootPath \o << W_hidden >>
    /\ req.method = "GET"
    /\ pc = "closed"
    /\ resp.status = 404

\* the segments of the path as handleApi splits it (host.ts 230-238), in
\* the spelling of the URL
DispatcherSegments(pathname) ==
    split(substr(replaceAllStrings(replaceAllStrings(pathname, "\\", "/"), PathSep, "/"), 4),
          "/")

\* the segments that follow the segment handleApi takes the module name from
AfterModuleName(pathname) ==
    LET segs  == DispatcherSegments(pathname)
        first == CHOOSE j \in 1..Len(segs) :
                    /\ ~isEmptyString(normalizeString(segs[j]))
                    /\ \A i \in 1..(j - 1) : isEmptyString(normalizeString(segs[i]))
        rest  == SubSeq(segs, first + 1, Len(segs))
        dec   == [i \in 1..Len(rest) |-> decodeURIComponent(rest[i])]
    IN  SelectSeq(dec, LAMBDA x : Len(x) > 0)

\* C27: handleApi and the workspace method agree on the resource path: for
\* every path routed to the workspace module, also one with empty segments
\* or without a slash after api, the path the method resolves is made of
\* exactly the segments that follow the module-name segment.
C27_ResourcePathAgrees ==
    WorkspaceResolved =>
        handler.fullPath = PathJoin(RootPath, join(AfterModuleName(req.path), "/"))

\* /api/workspace/d/f resolves to /r/w/d/f
C27_Witness ==
    /\ WorkspaceResolved
    /\ req.path = Slash(W_api) \o Slash(W_workspace) \o Slash(W_d) \o Slash(W_f)
    /\ handler.fullPath = RootPath \o << W_d, W_f >>
    /\ AfterModuleName(req.path) = << W_d, W_f >>

\* the servers that accept connections
Listening == { s \in 1..Len(host.servers) : host.servers[s].state = "listening" }

\* was a call of op issued after the call k?
IssuedAfter(k, op) == \E j \in (k + 1)..Len(host.calls) : host.calls[j].op = op

\* C28: the results of start() and stop() match the state of the listener
\* in every interleaving: once stop() has resolved and no start() is issued
\* after it, no listener is or becomes active, also when a start() was
\* waiting for its listen callback; once start() has resolved false, a
\* listener stays active until a later stop() is issued, also when a stop()
\* was waiting for its close callback.
C28_ResultsMatchListener ==
    \A k \in 1..Len(host.calls) :
        /\ (host.calls[k].op = "stop" /\ host.calls[k].result \in { "true", "false" }
                /\ ~IssuedAfter(k, "start")) => Listening = {}
        /\ (host.calls[k].op = "start" /\ host.calls[k].result = "false"
                /\ ~IssuedAfter(k, "stop")) => Listening # {}

\* start, listen callback, stop, close callback: stop resolved true and
\* nothing listens
C28_Witness ==
    /\ Len(host.calls) = 2
    /\ host.calls[1].op = "start"
    /\ host.calls[1].result = "true"
    /\ host.calls[2].op = "stop"
    /\ host.calls[2].pendingAtCall = 0
    /\ host.calls[2].result = "true"
    /\ host.server = NoServer
    /\ Listening = {}

\* the path lies in a dotted directory of the workspace, or is one
BelowDottedDirectory(p) ==
    /\ InWorkspace(p)
    /\ \E i \in (Len(RootPath) + 1)..Len(p) :
            hasLeadingDot(p[i]) /\ FsKind(SubSeq(p, 1, i)) = "dir"

\* C29: with withDot false nothing below a dotted directory is served: a
\* GET for a path that has a dotted directory among its components, not
\* only as the last one, returns neither a listing nor the content of a file.
C29_NothingBelowHidden ==
    (WorkspaceResolved /\ ~config.withDot /\ ctxMethod(req) = "get"
            /\ BelowDottedDirectory(handler.fullPath)) =>
        /\ response.data.kind # "list"
        /\ ~apiCtx.hasContent
        /\ <<"readdir", handler.fullPath>> \notin hist.fsOps
        /\ <<"readFile", handler.fullPath>> \notin hist.fsOps
        /\ \A i \in 1..Len(resp.body) : resp.body[i].kind = "undefined"

\* GET for the dotted directory itself with withDot false: 404, nothing read
C29_Witness ==
    /\ WorkspaceResolved
    /\ ~config.withDot
    /\ req.method = "GET"
    /\ req.user = Account
    /\ handler.fullPath = RootPath \o << W_hidden >>
    /\ hist.fsOps = { <<"exists", handler.fullPath>>, <<"lstat", handler.fullPath>> }
    /\ pc = "closed"
    /\ resp.status = 404
    /\ resp.body = << NoPayload >>

====
